---- MODULE Spec2Model ----
(***************************************************************************)
(* Model of main_youtube.py: the POST /api/process/youtube handler         *)
(* process_youtube and its helpers.  Texts (transcripts, prompts, model    *)
(* outputs, error messages, paths) are sequences of string tokens; a       *)
(* transcript is a sequence of one-character tokens.                       *)
(***************************************************************************)
EXTENDS Integers, Sequences, FiniteSets, TLC

\* ---------------------------------------------------------------- bounds
NumRequests == 2
MaxWords == 5

Requests == 1..NumRequests
Uuids == 1..NumRequests

\* --------------------------------------------------------- external inputs
\* Texts the speech-recognition model may return in result["text"]:
\* 0..MaxWords words of one or two characters, separated by one or two
\* whitespace characters, with or without surrounding whitespace.
Word(i) == IF i % 2 = 1 THEN <<"w">> ELSE <<"w", "w">>
Sep(i) == IF i % 2 = 1 THEN <<" ">> ELSE <<" ", "\n">>
RECURSIVE Words(_)
Words(n) == IF n = 0 THEN <<>>
            ELSE IF n = 1 THEN Word(1)
            ELSE Words(n - 1) \o Sep(n - 1) \o Word(n)
Padded(p, t) == IF p = 1 THEN <<" ">> \o t \o <<"\n">> ELSE t
Transcripts == { Padded(p, Words(n)) : p \in 0..1, n \in 0..MaxWords }

\* Texts the text-generation service may return in choices[0].message.content.
GenTexts == { <<"g1">>, <<"g2">> }

\* Exit codes of the download tool.
ExitCodes == 0..1

\* str(e) of the exceptions the external calls raise.  CalledProcessError
\* formats the command, whose --output argument is the temporary path;
\* OSError formats the file name it was raised for.
DownloadError(p) ==
    <<"Command '['yt-dlp', '--extract-audio', '--audio-format', 'mp3', '--output', '">>
        \o p \o <<"', url]' returned non-zero exit status 1.">>
TranscribeError == <<"Failed to load audio">>
NoModelError == <<"'NoneType' object has no attribute 'transcribe'">>
RemoveError(p) == <<"[Errno 13] Permission denied: ">> \o p
NoFileError(p) == <<"[Errno 2] No such file or directory: ">> \o p
ApiError == <<"Connection error.">>

\* ------------------------------------------------------------------ state
VARIABLES
    whisper_model,   \* "loaded" or "None": the module-level model handle
    loop,            \* request whose handler occupies the event loop, 0 if none
    pc,              \* per request: position in process_youtube
    audio_path,      \* per request: local audio_path
    raw_transcript,  \* per request: local raw_transcript
    corrected,       \* per request: local corrected
    summary,         \* per request: local summary
    polished,        \* per request: local polished
    response,        \* per request: the HTTP response produced
    calls,           \* per request: history of the external calls it made
    files,           \* paths that exist in the temp directory
    uuids,           \* uuids generated so far
    fileLog,         \* history of the file operations of all requests
    reported         \* history of the errors reported: failed stage, kind, detail

vars == <<whisper_model, loop, pc, audio_path, raw_transcript, corrected,
          summary, polished, response, calls, files, uuids, fileLog, reported>>

locals == <<audio_path, raw_transcript, corrected, summary, polished>>

None == <<"None">>
NoResponse == [status |-> 0, body |-> [none |-> None]]

\* ------------------------------------------------------- string functions
IsSpace(c) == c \in {" ", "\n", "\t"}

RECURSIVE lstrip(_)
lstrip(s) == IF s # <<>> /\ IsSpace(Head(s)) THEN lstrip(Tail(s)) ELSE s

RECURSIVE rstrip(_)
rstrip(s) == IF s # <<>> /\ IsSpace(s[Len(s)])
             THEN rstrip(SubSeq(s, 1, Len(s) - 1)) ELSE s

strip(s) == rstrip(lstrip(s))

\* str.split() without arguments: the maximal runs of non-whitespace, in
\* order.  A run ends at a non-whitespace character that is the last one
\* or is followed by whitespace; the k-th word is the run with the k-th end.
WordEnds(s) ==
    { j \in 1..Len(s) : ~IsSpace(s[j]) /\ (j = Len(s) \/ IsSpace(s[j + 1])) }
split(s) ==
    [k \in 1..Cardinality(WordEnds(s)) |->
        LET j == CHOOSE e \in WordEnds(s) :
                    Cardinality({ x \in WordEnds(s) : x < e }) = k - 1
            i == CHOOSE b \in 1..j :
                    /\ \A x \in b..j : ~IsSpace(s[x])
                    /\ (b = 1 \/ IsSpace(s[b - 1]))
        IN SubSeq(s, i, j)]

\* ------------------------------------------------------ response builders
HTTPException(status_code, detail) ==
    [status |-> status_code, body |-> [detail |-> detail]]

ModelNotLoadedWrapped == HTTPException(500, <<"YouTube pipeline failed: ", "Whisper model not loaded">>)
ModelNotLoaded == HTTPException(500, <<"Whisper model not loaded">>)

ExceptHandlerAs200(e) == [status |-> 200, body |-> [detail |-> <<"YouTube pipeline failed: ">> \o e]]
ExceptHandlerNoMsg(e) == HTTPException(500, <<"YouTube pipeline failed: ">>)
ExceptHandlerCounting(e) ==
    HTTPException(500, <<"YouTube pipeline failed: ">> \o e \o <<ToString(Cardinality(uuids))>>)
ExceptHandler(e) == HTTPException(500, <<"YouTube pipeline failed: ">> \o e)

DegradedMsg == <<"The audio is too corrupted or noisy to extract useful content.">>
DegradedResponse == [status |-> 200, body |-> [polished_summary |-> DegradedMsg]]

ResultResponse(s, p) == [status |-> 200, body |-> [summary |-> s, polished_summary |-> p]]

\* ---------------------------------------------------------------- helpers
ModelMissingNever(m) == FALSE
ModelMissing(m) == m = "None"

TempPathFixed(u) == <<"/tmp/", "audio", ".mp3">>
TempPath(u) == <<"/tmp/", ToString(u), ".mp3">>

uuid4 == Uuids \ uuids

DownloadRaisesNever(rc) == FALSE
DownloadRaises(rc) == rc # 0

os_remove_noop(fs, p) == fs
os_remove(fs, p) == fs \ {p}

TooShortBelow4(t) == t = <<>> \/ Len(split(t)) < 4
TooShort(t) == t = <<>> \/ Len(split(t)) < 5

CorrectMessages(raw_text) ==
    <<"You are a transcription corrector.", "Correct the following transcript">>
        \o raw_text \o <<"\n">>
SummarizeMessages(text) ==
    <<"You are an expert summarizer.", "Summarize the following transcript">>
        \o text \o <<"\n">>
PolishMessages(s) ==
    <<"You are a bullet point refiner.", "Polish the following grouped bullet points">>
        \o s \o <<"\n">>

\* Outcomes of client.chat.completions.create: generated text or an exception.
GenOutcomes == { [ok |-> TRUE, res |-> g] : g \in GenTexts }
                   \cup { [ok |-> FALSE, res |-> ApiError] }

Call(op, arg, ok, res) == [op |-> op, arg |-> arg, ok |-> ok, res |-> res]
FileOp(r, op, path) == [req |-> r, op |-> op, path |-> path]

\* ------------------------------------------------------------------- Init
Init ==
    /\ whisper_model \in {"loaded", "None"}
    /\ loop = 0
    /\ pc = [r \in Requests |-> "pending"]
    /\ audio_path = [r \in Requests |-> None]
    /\ raw_transcript = [r \in Requests |-> None]
    /\ corrected = [r \in Requests |-> None]
    /\ summary = [r \in Requests |-> None]
    /\ polished = [r \in Requests |-> None]
    /\ response = [r \in Requests |-> NoResponse]
    /\ calls = [r \in Requests |-> <<>>]
    /\ files = {}
    /\ uuids = {}
    /\ fileLog = <<>>
    /\ reported = {}

\* ---------------------------------------------------------------- actions
\* The handler is a coroutine without await: it starts when the event loop
\* is free and keeps the loop until its response is sent.
Start(r) ==
    /\ pc[r] = "pending"
    /\ loop = 0
    /\ loop' = r
    /\ pc' = [pc EXCEPT ![r] = "check"]
    /\ UNCHANGED <<whisper_model, locals, response, calls, files, uuids, fileLog, reported>>

RaiseHangs(r, e) ==
    /\ response' = response
    /\ pc' = [pc EXCEPT ![r] = "hung"]

\* The except clause: the exception becomes the response, the handler ends.
Raise(r, e) ==
    /\ response' = [response EXCEPT ![r] = ExceptHandler(e)]
    /\ pc' = [pc EXCEPT ![r] = "done"]

CheckModelReloads(r) ==
    /\ pc[r] = "check"
    /\ loop = r
    /\ whisper_model' = "loaded"
    /\ pc' = [pc EXCEPT ![r] = "download"]
    /\ UNCHANGED <<loop, locals, response, calls, files, uuids, fileLog, reported>>

CheckModel(r) ==
    /\ pc[r] = "check"
    /\ loop = r
    /\ IF ModelMissing(whisper_model)
       THEN /\ response' = [response EXCEPT ![r] = ModelNotLoaded]
            /\ pc' = [pc EXCEPT ![r] = "done"]
       ELSE /\ pc' = [pc EXCEPT ![r] = "download"]
            /\ UNCHANGED response
    /\ UNCHANGED <<whisper_model, loop, locals, calls, files, uuids, fileLog, reported>>

Download(r) ==
    /\ pc[r] = "download"
    /\ loop = r
    /\ \E u \in uuid4, rc \in ExitCodes, left \in BOOLEAN :
        LET temp_path == TempPath(u) IN
        /\ uuids' = uuids \cup {u}
        /\ fileLog' = Append(fileLog, FileOp(r, "download", temp_path))
        /\ files' = IF rc = 0 \/ left THEN files \cup {temp_path} ELSE files
        /\ (rc = 0 => left)
        /\ calls' = [calls EXCEPT ![r] =
                        Append(@, Call("download", temp_path, rc = 0,
                                       IF rc = 0 THEN temp_path ELSE DownloadError(temp_path)))]
        /\ IF DownloadRaises(rc)
           THEN /\ Raise(r, DownloadError(temp_path))
                /\ UNCHANGED audio_path
           ELSE /\ audio_path' = [audio_path EXCEPT ![r] = temp_path]
                /\ pc' = [pc EXCEPT ![r] = "transcribe"]
                /\ UNCHANGED response
    /\ UNCHANGED <<whisper_model, loop, raw_transcript, corrected, summary, polished, reported>>

\* Outcomes of whisper_model.transcribe(audio_path)["text"].
TranscribeOutcomes(r) ==
    IF whisper_model = "None" THEN { [ok |-> FALSE, res |-> NoModelError] }
    ELSE IF audio_path[r] \notin files THEN { [ok |-> FALSE, res |-> TranscribeError] }
    ELSE { [ok |-> TRUE, res |-> t] : t \in Transcripts }
            \cup { [ok |-> FALSE, res |-> TranscribeError] }

TranscribeThenCleanup(r) ==
    /\ pc[r] = "transcribe"
    /\ loop = r
    /\ \E o \in TranscribeOutcomes(r) :
        /\ calls' = [calls EXCEPT ![r] =
                        Append(@, Call("transcribe", audio_path[r], o.ok, o.res))]
        /\ IF o.ok
           THEN /\ raw_transcript' = [raw_transcript EXCEPT ![r] = strip(o.res)]
                /\ pc' = [pc EXCEPT ![r] = "remove"]
                /\ fileLog' = Append(fileLog, FileOp(r, "read", audio_path[r]))
                /\ UNCHANGED <<response, files>>
           ELSE /\ Raise(r, o.res)
                /\ files' = files \ {audio_path[r]}
                /\ fileLog' = fileLog \o <<FileOp(r, "read", audio_path[r]),
                                           FileOp(r, "delete", audio_path[r])>>
                /\ UNCHANGED raw_transcript
    /\ UNCHANGED <<whisper_model, loop, audio_path, corrected, summary, polished,
                   uuids, reported>>

Transcribe(r) ==
    /\ pc[r] = "transcribe"
    /\ loop = r
    /\ \E o \in TranscribeOutcomes(r) :
        /\ calls' = [calls EXCEPT ![r] =
                        Append(@, Call("transcribe", audio_path[r], o.ok, o.res))]
        /\ fileLog' = Append(fileLog, FileOp(r, "read", audio_path[r]))
        /\ IF o.ok
           THEN /\ raw_transcript' = [raw_transcript EXCEPT ![r] = strip(o.res)]
                /\ pc' = [pc EXCEPT ![r] = "remove"]
                /\ UNCHANGED response
           ELSE /\ Raise(r, o.res)
                /\ UNCHANGED raw_transcript
    /\ UNCHANGED <<whisper_model, loop, audio_path, corrected, summary, polished,
                   files, uuids, reported>>

\* Outcomes of os.remove(audio_path).
RemoveOutcomes(r) ==
    IF audio_path[r] \notin files THEN { [ok |-> FALSE, res |-> NoFileError(audio_path[r])] }
    ELSE { [ok |-> TRUE, res |-> None], [ok |-> FALSE, res |-> RemoveError(audio_path[r])] }

RemoveIgnoringErrors(r) ==
    /\ pc[r] = "remove"
    /\ loop = r
    /\ \E o \in RemoveOutcomes(r) :
        /\ calls' = [calls EXCEPT ![r] =
                        Append(@, Call("remove", audio_path[r], o.ok, o.res))]
        /\ fileLog' = Append(fileLog, FileOp(r, "delete", audio_path[r]))
        /\ files' = IF o.ok THEN os_remove(files, audio_path[r]) ELSE files
        /\ pc' = [pc EXCEPT ![r] = "gate"]
        /\ UNCHANGED response
    /\ UNCHANGED <<whisper_model, loop, locals, uuids, reported>>

Remove(r) ==
    /\ pc[r] = "remove"
    /\ loop = r
    /\ \E o \in RemoveOutcomes(r) :
        /\ calls' = [calls EXCEPT ![r] =
                        Append(@, Call("remove", audio_path[r], o.ok, o.res))]
        /\ fileLog' = Append(fileLog, FileOp(r, "delete", audio_path[r]))
        /\ IF o.ok
           THEN /\ files' = os_remove(files, audio_path[r])
                /\ pc' = [pc EXCEPT ![r] = "gate"]
                /\ UNCHANGED response
           ELSE /\ Raise(r, o.res)
                /\ UNCHANGED files
    /\ UNCHANGED <<whisper_model, loop, locals, uuids, reported>>

Gate(r) ==
    /\ pc[r] = "gate"
    /\ loop = r
    /\ IF TooShort(raw_transcript[r])
       THEN /\ response' = [response EXCEPT ![r] = DegradedResponse]
            /\ pc' = [pc EXCEPT ![r] = "done"]
       ELSE /\ pc' = [pc EXCEPT ![r] = "correct"]
            /\ UNCHANGED response
    /\ UNCHANGED <<whisper_model, loop, locals, calls, files, uuids, fileLog, reported>>

Correct(r) ==
    /\ pc[r] = "correct"
    /\ loop = r
    /\ \E o \in GenOutcomes :
        /\ calls' = [calls EXCEPT ![r] =
                        Append(@, Call("correct", CorrectMessages(raw_transcript[r]), o.ok, o.res))]
        /\ IF o.ok
           THEN /\ corrected' = [corrected EXCEPT ![r] = o.res]
                /\ pc' = [pc EXCEPT ![r] = "summarize"]
                /\ UNCHANGED response
           ELSE /\ Raise(r, o.res)
                /\ UNCHANGED corrected
    /\ UNCHANGED <<whisper_model, loop, audio_path, raw_transcript, summary, polished,
                   files, uuids, fileLog, reported>>

SummarizeInputRaw(r) == raw_transcript[r]
SummarizeInput(r) == corrected[r]

Summarize(r) ==
    /\ pc[r] = "summarize"
    /\ loop = r
    /\ \E o \in GenOutcomes :
        /\ calls' = [calls EXCEPT ![r] =
                        Append(@, Call("summarize", SummarizeMessages(SummarizeInput(r)), o.ok, o.res))]
        /\ IF o.ok
           THEN /\ summary' = [summary EXCEPT ![r] = o.res]
                /\ pc' = [pc EXCEPT ![r] = "polish"]
                /\ UNCHANGED response
           ELSE /\ Raise(r, o.res)
                /\ UNCHANGED summary
    /\ UNCHANGED <<whisper_model, loop, audio_path, raw_transcript, corrected, polished,
                   files, uuids, fileLog, reported>>

Polish(r) ==
    /\ pc[r] = "polish"
    /\ loop = r
    /\ \E o \in GenOutcomes :
        /\ calls' = [calls EXCEPT ![r] =
                        Append(@, Call("polish", PolishMessages(summary[r]), o.ok, o.res))]
        /\ IF o.ok
           THEN /\ polished' = [polished EXCEPT ![r] = o.res]
                /\ pc' = [pc EXCEPT ![r] = "return"]
                /\ UNCHANGED response
           ELSE /\ Raise(r, o.res)
                /\ UNCHANGED polished
    /\ UNCHANGED <<whisper_model, loop, audio_path, raw_transcript, corrected, summary,
                   files, uuids, fileLog, reported>>

Return(r) ==
    /\ pc[r] = "return"
    /\ loop = r
    /\ response' = [response EXCEPT ![r] = ResultResponse(summary[r], polished[r])]
    /\ pc' = [pc EXCEPT ![r] = "done"]
    /\ UNCHANGED <<whisper_model, loop, locals, calls, files, uuids, fileLog, reported>>

\* What tells one reported error from another apart from the embedded
\* message: the status code and the fixed part of the detail.
ErrorKind(resp) == <<resp.status, Head(resp.body.detail)>>

\* The stage whose failure ended request r: the last external call made,
\* or the model check when none was made.
FailedStage(r) == IF calls[r] = <<>> THEN "model" ELSE calls[r][Len(calls[r])].op

\* The response is sent, the coroutine's frame is released and the event
\* loop is free for the next handler.
Close(r) ==
    /\ pc[r] = "done"
    /\ loop = r
    /\ loop' = 0
    /\ pc' = [pc EXCEPT ![r] = "closed"]
    /\ audio_path' = [audio_path EXCEPT ![r] = None]
    /\ raw_transcript' = [raw_transcript EXCEPT ![r] = None]
    /\ corrected' = [corrected EXCEPT ![r] = None]
    /\ summary' = [summary EXCEPT ![r] = None]
    /\ polished' = [polished EXCEPT ![r] = None]
    /\ response' = [response EXCEPT ![r] = NoResponse]
    /\ calls' = [calls EXCEPT ![r] = <<>>]
    /\ reported' = IF response[r].status = 500
                   THEN reported \cup {[stage |-> FailedStage(r),
                                         kind |-> ErrorKind(response[r]),
                                         detail |-> response[r].body.detail]}
                   ELSE reported
    /\ UNCHANGED <<whisper_model, files, uuids, fileLog>>

Step(r) ==
    \/ Start(r)
    \/ CheckModel(r)
    \/ Download(r)
    \/ Transcribe(r)
    \/ Remove(r)
    \/ Gate(r)
    \/ Correct(r)
    \/ Summarize(r)
    \/ Polish(r)
    \/ Return(r)
    \/ Close(r)

Next == \E r \in Requests : Step(r)

\* Requests numbered by arrival: the event loop starts the handlers in
\* that order, runs a started handler until it returns or raises, and
\* every external call the handler waits for returns or fails.
FifoNext ==
    \E r \in Requests : (\A q \in 1..(r - 1) : pc[q] = "closed") /\ Step(r)

LiveSpec == Init /\ [][FifoNext]_vars /\ WF_vars(FifoNext)

Spec == Init /\ [][Next]_vars

\* ------------------------------------------------------ claim vocabulary
GenOps == {"correct", "summarize", "polish"}
StageOps == <<"download", "transcribe", "remove", "correct", "summarize", "polish">>
BlockingPhases == {"download", "transcribe", "correct", "summarize", "polish"}

\* Number of whitespace-separated words of a text, counted by word starts.
NumWords(t) ==
    Cardinality({ i \in 1..Len(t) : ~IsSpace(t[i]) /\ (i = 1 \/ IsSpace(t[i - 1])) })

MadeCall(r, op) == \E i \in 1..Len(calls[r]) : calls[r][i].op = op
Succeeded(r, i, op) ==
    Len(calls[r]) >= i /\ calls[r][i].op = op /\ calls[r][i].ok

PipelineFailure(msg) ==
    [status |-> 500, body |-> [detail |-> <<"YouTube pipeline failed: ">> \o msg]]
TooNoisy ==
    [status |-> 200,
     body |-> [polished_summary |->
                 <<"The audio is too corrupted or noisy to extract useful content.">>]]

\* C1 (as amended): when fetch, transcription and the deletion of the audio
\* file succeed and the transcript has fewer than 5 words, the request
\* ends at the quality gate with 200 and only polished_summary = the fixed
\* message, and no text-generation call is made.
C1_ShortTranscriptDegraded ==
    \A r \in Requests :
        (/\ Succeeded(r, 1, "download")
         /\ Succeeded(r, 2, "transcribe")
         /\ Succeeded(r, 3, "remove")
         /\ NumWords(calls[r][2].res) < 5)
        => /\ pc[r] \in {"gate", "done"}
           /\ \A op \in GenOps : ~MadeCall(r, op)
           /\ pc[r] = "done" => response[r] = TooNoisy

C1_Witness ==
    \E r \in Requests :
        /\ pc[r] = "done"
        /\ Succeeded(r, 3, "remove")
        /\ NumWords(calls[r][2].res) = 4
        /\ response[r] = TooNoisy

\* C1 (as stated): every finished request whose fetch and transcription
\* succeeded and whose transcript has fewer than 5 words answers 200 with
\* the fixed message alone.
C1_Original ==
    \A r \in Requests :
        (/\ pc[r] = "done"
         /\ Succeeded(r, 1, "download")
         /\ Succeeded(r, 2, "transcribe")
         /\ NumWords(calls[r][2].res) < 5)
        => response[r] = TooNoisy

\* C2: a request whose three text-generation calls succeeded made exactly
\* the calls download, transcribe, remove, correct, summarize, polish in
\* that order, correction on the stripped transcript (of at least 5
\* words), summarization on the correction output, polishing on the
\* summarization output, and answers 200 with exactly the keys summary
\* (summarization output) and polished_summary (polishing output).
C2_RefinementChain ==
    \A r \in Requests :
        (\E i \in 1..Len(calls[r]) : calls[r][i].op = "polish" /\ calls[r][i].ok)
        => LET c == calls[r] IN
           /\ Len(c) = 6
           /\ \A i \in 1..6 : c[i].op = StageOps[i] /\ c[i].ok
           /\ NumWords(c[2].res) >= 5
           /\ c[4].arg = CorrectMessages(strip(c[2].res))
           /\ c[5].arg = SummarizeMessages(c[4].res)
           /\ c[6].arg = PolishMessages(c[5].res)
           /\ pc[r] \in {"return", "done"}
           /\ pc[r] = "done" =>
                /\ response[r].status = 200
                /\ DOMAIN response[r].body = {"summary", "polished_summary"}
                /\ response[r].body.summary = c[5].res
                /\ response[r].body.polished_summary = c[6].res

C2_Witness ==
    \E r \in Requests :
        /\ pc[r] = "done"
        /\ Succeeded(r, 6, "polish")
        /\ NumWords(calls[r][2].res) = 5
        /\ calls[r][4].res # calls[r][5].res
        /\ calls[r][5].res # calls[r][6].res
        /\ response[r].body.summary = calls[r][5].res

\* C3: when the download fails, the request makes no further call (no
\* transcription, no deletion, no text generation) and ends with 500 whose
\* detail is the pipeline-failure prefix followed by the fetch error's
\* message.
C3_FetchFailureStops ==
    \A r \in Requests :
        (Len(calls[r]) >= 1 /\ calls[r][1].op = "download" /\ ~calls[r][1].ok)
        => /\ Len(calls[r]) = 1
           /\ pc[r] = "done"
           /\ response[r] = PipelineFailure(calls[r][1].res)
           /\ \A i \in 1..Len(fileLog) :
                fileLog[i].req = r => fileLog[i].op = "download"

C3_Witness ==
    \E r \in Requests :
        /\ pc[r] = "done"
        /\ Len(calls[r]) = 1
        /\ ~calls[r][1].ok
        /\ response[r].status = 500

\* C4: when the model failed to load, every request, whatever came before
\* it, ends with 500 "Whisper model not loaded" without making any call,
\* generating a path or touching a file, and the model stays unloaded.
C4_FailFastState ==
    whisper_model = "None" =>
        /\ files = {} /\ uuids = {} /\ fileLog = <<>>
        /\ \A r \in Requests :
            /\ pc[r] \in {"pending", "check", "done", "closed"}
            /\ calls[r] = <<>>
            /\ pc[r] = "done" =>
                response[r] = [status |-> 500,
                               body |-> [detail |-> <<"Whisper model not loaded">>]]

C4_ModelUnavailable ==
    /\ []C4_FailFastState
    /\ [][whisper_model = "None" => whisper_model' = "None"]_vars

C4_Witness ==
    \E r1, r2 \in Requests :
        /\ whisper_model = "None"
        /\ pc[r1] = "closed"
        /\ pc[r2] = "done"
        /\ response[r2].status = 500

\* C5: a finished request has exactly one of three responses: 200 with the
\* degraded message alone, 200 with exactly summary and polished_summary,
\* or 500 with a detail alone; an unfinished request has no response.
C5_ThreeOutcomes ==
    \A r \in Requests :
        /\ pc[r] = "done" =>
            \/ response[r] = TooNoisy
            \/ /\ response[r].status = 200
               /\ DOMAIN response[r].body = {"summary", "polished_summary"}
            \/ /\ response[r].status = 500
               /\ DOMAIN response[r].body = {"detail"}
        /\ pc[r] # "done" => response[r] = NoResponse

C5_Witness ==
    \E r \in Requests :
        /\ pc[r] = "done"
        /\ Succeeded(r, 5, "summarize")
        /\ Len(calls[r]) = 6
        /\ ~calls[r][6].ok
        /\ response[r].status = 500
        /\ DOMAIN response[r].body = {"detail"}

\* C6: a failed text-generation call is the last call of its request: it
\* is not retried, nothing is called after it, its output stays unset, and
\* the request ends at once with 500 whose detail is the pipeline-failure
\* prefix followed by the underlying message.
C6_RefinementFailureStops ==
    \A r \in Requests :
        /\ \A i, j \in 1..Len(calls[r]) : calls[r][i].op = calls[r][j].op => i = j
        /\ \A i \in 1..Len(calls[r]) :
            (calls[r][i].op \in GenOps /\ ~calls[r][i].ok)
            => /\ i = Len(calls[r])
               /\ pc[r] = "done"
               /\ response[r] = PipelineFailure(calls[r][i].res)
               /\ polished[r] = None
               /\ calls[r][i].op \in {"correct", "summarize"} => summary[r] = None
               /\ calls[r][i].op = "correct" => corrected[r] = None

C6_Witness ==
    \E r \in Requests :
        /\ pc[r] = "done"
        /\ Len(calls[r]) = 5
        /\ calls[r][5].op = "summarize"
        /\ ~calls[r][5].ok
        /\ corrected[r] # None
        /\ response[r].status = 500

C8_TwoErrorKinds ==
    /\ \A r \in Requests :
        (pc[r] = "done" /\ response[r].status = 500)
        => IF calls[r] = <<>>
           THEN response[r].body.detail = <<"Whisper model not loaded">>
           ELSE /\ ~calls[r][Len(calls[r])].ok
                /\ response[r].body.detail =
                     <<"YouTube pipeline failed: ">> \o calls[r][Len(calls[r])].res
    /\ \A e \in reported :
        e.kind = IF e.stage = "model" THEN <<500, "Whisper model not loaded">>
                 ELSE <<500, "YouTube pipeline failed: ">>

C8_Witness ==
    \E a, b \in reported : a.stage = "download" /\ b.stage = "transcribe"

\* C8 (as stated): the error reported for a fetch failure differs in kind
\* from the error reported for a failure of any later stage.
C8_Original ==
    \A a, b \in reported :
        (a.stage = "download" /\ b.stage \notin {"download", "model"})
        => a.kind # b.kind

\* C9: while a request is inside a blocking call, any other request that
\* has not finished can take a step.
C9_NotBlocked ==
    \A r1, r2 \in Requests :
        (r1 # r2 /\ pc[r1] \in BlockingPhases /\ pc[r2] # "closed")
        => ENABLED Step(r2)

Rank(p) ==
    CASE p = "pending" -> 0 [] p = "check" -> 1 [] p = "download" -> 2
      [] p = "transcribe" -> 3 [] p = "remove" -> 4 [] p = "gate" -> 5
      [] p = "correct" -> 6 [] p = "summarize" -> 7 [] p = "polish" -> 8
      [] p = "return" -> 9 [] p = "done" -> 10 [] p = "closed" -> 11
      [] OTHER -> 0 - 1

\* Number of external calls a request has made when it stands at p.
CallsBefore(p) ==
    CASE p = "transcribe" -> 1 [] p = "remove" -> 2 [] p = "gate" -> 3
      [] p = "correct" -> 3 [] p = "summarize" -> 4 [] p = "polish" -> 5
      [] p = "return" -> 6 [] OTHER -> 0

NumGenCalls(r) == Cardinality({ i \in 1..Len(calls[r]) : calls[r][i].op \in GenOps })

\* C11: the calls of a request are a prefix of download, transcribe,
\* remove, correct, summarize, polish, each made once and only after all
\* earlier ones succeeded; a request that stopped before polish without a
\* failed call stopped at the quality gate with the degraded response; the
\* control point only moves forward.
C11_PrefixOfStages ==
    \A r \in Requests :
        LET c == calls[r] IN
        /\ Len(c) <= 6
        /\ \A i \in 1..Len(c) : c[i].op = StageOps[i] /\ (i < Len(c) => c[i].ok)
        /\ Rank(pc[r]) >= 0
        /\ pc[r] # "done" => (Len(c) = CallsBefore(pc[r]) /\ \A i \in 1..Len(c) : c[i].ok)
        /\ (pc[r] = "done" /\ response[r].status = 200 /\ Len(c) < 6)
           => (Len(c) = 3 /\ c[3].ok /\ response[r] = TooNoisy)
        /\ (pc[r] = "done" /\ response[r].status = 500 /\ c # <<>>) => ~c[Len(c)].ok

C11_LinearStages ==
    /\ []C11_PrefixOfStages
    /\ [][\A r \in Requests :
            pc'[r] # pc[r] => Rank(pc'[r]) > Rank(pc[r])]_vars

C11_Witness ==
    \E r \in Requests :
        /\ pc[r] = "done"
        /\ Len(calls[r]) = 6
        /\ \A i \in 1..6 : calls[r][i].ok
        /\ \E q \in Requests : pc[q] = "closed"

\* C12: a request whose download or transcription failed made no delete:
\* no remove call, no delete in the file history; after a failed
\* transcription the downloaded file still exists.  A remove call is made
\* only after a successful transcription.
C12_LeakedOnFailure ==
    \A r \in Requests :
        LET c == calls[r] IN
        /\ MadeCall(r, "remove") => Succeeded(r, 2, "transcribe")
        /\ (c # <<>> /\ ~c[Len(c)].ok /\ c[Len(c)].op \in {"download", "transcribe"})
           => /\ pc[r] = "done"
              /\ ~MadeCall(r, "remove")
              /\ \A i \in 1..Len(fileLog) :
                    fileLog[i].req = r => fileLog[i].op # "delete"
              /\ c[Len(c)].op = "transcribe" => c[1].arg \in files

C12_Witness ==
    \E r \in Requests :
        /\ pc[r] = "done"
        /\ Len(calls[r]) = 2
        /\ ~calls[r][2].ok
        /\ calls[r][1].arg \in files
        /\ response[r].status = 500

\* C13: every request that has started eventually has its response.
C13_Terminates ==
    \A r \in Requests :
        (pc[r] \notin {"pending", "done", "closed"}) ~> (pc[r] = "done")

C13_Witness ==
    \E r \in Requests :
        /\ pc[r] = "done"
        /\ Len(calls[r]) = 6
        /\ \A q \in Requests \ {r} : pc[q] = "closed"

\* The response the handler gives for a model handle and the results of
\* the external calls made (c: the results in call order).
ResponseFor(m, c) ==
    IF m = "None" THEN [status |-> 500, body |-> [detail |-> <<"Whisper model not loaded">>]]
    ELSE IF c # <<>> /\ ~c[Len(c)].ok THEN PipelineFailure(c[Len(c)].res)
    ELSE IF Len(c) = 3 THEN TooNoisy
    ELSE [status |-> 200, body |-> [summary |-> c[5].res, polished_summary |-> c[6].res]]

Results(r) == [i \in 1..Len(calls[r]) |-> [ok |-> calls[r][i].ok, res |-> calls[r][i].res]]

C15_FrameStep ==
    /\ whisper_model' = whisper_model
    /\ \A q \in Requests :
        (loop # q /\ loop' # q) =>
            /\ pc'[q] = pc[q]
            /\ audio_path'[q] = audio_path[q]
            /\ raw_transcript'[q] = raw_transcript[q]
            /\ corrected'[q] = corrected[q]
            /\ summary'[q] = summary[q]
            /\ polished'[q] = polished[q]
            /\ response'[q] = response[q]
            /\ calls'[q] = calls[q]

C15_Idle ==
    \A q \in Requests :
        pc[q] \in {"pending", "closed"} =>
            /\ audio_path[q] = None /\ raw_transcript[q] = None
            /\ corrected[q] = None /\ summary[q] = None /\ polished[q] = None

C15_HandlesUnchanged == []C15_Idle /\ [][C15_FrameStep]_vars

C15_Witness ==
    \E r1, r2 \in Requests :
        /\ whisper_model = "loaded"
        /\ pc[r1] = "closed"
        /\ pc[r2] = "polish"
        /\ audio_path[r1] = None
        /\ summary[r2] # None

\* C16: a finished request whose response has the summary key had the
\* model loaded and made exactly the six calls, all successful, on a
\* transcript of at least 5 words, with each text-generation call made
\* once; a degraded response comes with no text-generation call.
C16_SummaryOnlyIfAll ==
    \A r \in Requests :
        pc[r] = "done" =>
            /\ "summary" \in DOMAIN response[r].body =>
                /\ whisper_model = "loaded"
                /\ response[r].status = 200
                /\ Len(calls[r]) = 6
                /\ \A i \in 1..6 : calls[r][i].op = StageOps[i] /\ calls[r][i].ok
                /\ NumWords(calls[r][2].res) >= 5
                /\ NumGenCalls(r) = 3
                /\ \A op \in GenOps :
                    Cardinality({ i \in 1..6 : calls[r][i].op = op }) = 1
            /\ response[r] = TooNoisy => NumGenCalls(r) = 0

C16_Witness ==
    \E r \in Requests :
        /\ pc[r] = "done"
        /\ "summary" \in DOMAIN response[r].body
        /\ NumGenCalls(r) = 3
        /\ calls[r][5].res = calls[r][6].res

\* C17: when the deletion fails after a successful transcription the
\* request ends at once with 500 and the pipeline-failure detail carrying
\* the deletion error: no gate, no text-generation call, neither the
\* degraded message nor a summary.
C17_DeleteFailureFails ==
    \A r \in Requests :
        (Succeeded(r, 2, "transcribe") /\ Len(calls[r]) >= 3
            /\ calls[r][3].op = "remove" /\ ~calls[r][3].ok)
        => /\ Len(calls[r]) = 3
           /\ pc[r] = "done"
           /\ NumGenCalls(r) = 0
           /\ response[r] = PipelineFailure(calls[r][3].res)
           /\ DOMAIN response[r].body = {"detail"}

C17_Witness ==
    \E r \in Requests :
        /\ pc[r] = "done"
        /\ Len(calls[r]) = 3
        /\ ~calls[r][3].ok
        /\ NumWords(calls[r][2].res) < 5
        /\ response[r].status = 500
        /\ calls[r][1].arg \in files

====
